---- MODULE Spec2Model ----
(***************************************************************************)
(* Swap transaction assembly and submission pipeline of jup-ag:            *)
(*   address_tables.rs  LookupTable::deserialize, load_address_lookup_table*)
(*   swap_types.rs      Setup/SwapInstruction::to_instruction,             *)
(*                      SwapResponse::new_v0_transaction                   *)
(*   swapper.rs         Swapper::new_swap                                  *)
(***************************************************************************)
EXTENDS Integers, Sequences, FiniteSets, TLC

VARIABLES
    data,        \* deserialize: the account bytes handed to the decoder
    decoded,     \* deserialize: its Result<LookupTable>
    desc,        \* to_instruction: the instruction descriptor (self)
    built,       \* to_instruction: its Result<Instruction>
    builtBy,     \* to_instruction: which impl ran, "setup" or "swap"
    tables,      \* load_address_lookup_table: the requested table addresses
    fetched,     \* load_address_lookup_table: what get_multiple_accounts answered
    loaded,      \* load_address_lookup_table: its Result<Vec<AddressLookupTableAccount>>
    pc,            \* new_swap / new_v0_transaction: the next step of the run
    entry,         \* which public function the caller entered
    keypair_bytes, \* Swapper.keypair_bytes: "valid" or "malformed" key material
    swap_response, \* the SwapResponse (self of new_v0_transaction)
    prio_fee,      \* new_v0_transaction argument, Option<u64>
    cu_limit,      \* new_v0_transaction argument, Option<u32>
    rpc_blockhash, \* what the node answers to get_latest_blockhash
    instructions,  \* new_v0_transaction: Result of the instruction list built so far
    blockhash,     \* new_v0_transaction: Result of rpc.get_latest_blockhash()
    v0_msg,        \* Result of new_v0_transaction
    v_tx,          \* new_swap: Result of VersionedTransaction::try_new
    sends,         \* number of rpc.send_transaction_with_config calls made
    sent,          \* the node's answer to the send
    result         \* new_swap: its Result<Signature>

decodeVars == <<data, decoded>>
ixVars == <<desc, built, builtBy>>
loadVars == <<tables, fetched, loaded>>
runVars == <<pc, entry, keypair_bytes, swap_response, prio_fee, cu_limit, rpc_blockhash,
             instructions, blockhash, v0_msg, v_tx, sends, sent, result>>
vars == <<data, decoded, desc, built, builtBy, tables, fetched, loaded,
          pc, entry, keypair_bytes, swap_response, prio_fee, cu_limit, rpc_blockhash,
          instructions, blockhash, v0_msg, v_tx, sends, sent, result>>

\* ------------------------------------------------------------------ bounds
MaxAddrs == 2      \* stored addresses per generated table account
NumKeys == 2       \* distinct 32-byte addresses in play
MaxSlop == 2       \* stray bytes appended after the packed addresses
MaxAccounts == 2   \* declared accounts per instruction descriptor
MaxTables == 2     \* table addresses per load_address_lookup_table call
MaxSetup == 2      \* setup instruction descriptors per plan
MaxPlanTables == 2 \* lookup table addresses per plan

\* --------------------------------------------------------- program constants
LOOKUP_TABLE_META_SIZE == 56
PUBKEY_BYTES == 32

\* ------------------------------------------------------------------ helpers
Zeros(n) == [i \in 1..n |-> 0]

Take(s, n) == SubSeq(s, 1, n)

SeqsUpTo(S, n) == UNION {[1..k -> S] : k \in 0..n}

RECURSIVE Flatten(_)
Flatten(ss) == IF ss = <<>> THEN <<>> ELSE Head(ss) \o Flatten(Tail(ss))

\* A Pubkey is 32 raw bytes; Pk(n) is the n-th distinct one.
Pk(n) == <<n>> \o Zeros(PUBKEY_BYTES - 1)

Keys == {Pk(n) : n \in 1..NumKeys}

\* Result<T>
Ok(v) == [ok |-> TRUE, val |-> v, err |-> ""]
Err(e) == [ok |-> FALSE, val |-> <<>>, err |-> e]
NotRun == Err("NotRun")

\* ------------------------------------------------- LookupTable::deserialize
\* bincode::deserialize::<ProgramState>: a little-endian u32 variant index, then
\* for LookupTable the LookupTableMeta fields u64, u64, u8, Option<Pubkey>, u16.
\* Trailing bytes are allowed; running out of bytes or an unknown tag is an error.
BincodeProgramState(d) ==
    IF Len(d) < 4 THEN Err("bincode")
    ELSE LET tag == Take(d, 4) IN
         IF tag = <<0, 0, 0, 0>> THEN Ok([variant |-> "Uninitialized", authority |-> <<>>])
         ELSE IF tag # <<1, 0, 0, 0>> THEN Err("bincode")
         ELSE IF Len(d) < 22 THEN Err("bincode")
         ELSE IF d[22] = 0
              THEN IF Len(d) >= 24
                   THEN Ok([variant |-> "LookupTable", authority |-> <<>>])
                   ELSE Err("bincode")
         ELSE IF d[22] = 1
              THEN IF Len(d) >= 56
                   THEN Ok([variant |-> "LookupTable", authority |-> <<SubSeq(d, 23, 54)>>])
                   ELSE Err("bincode")
         ELSE Err("bincode")

\* Mutant: a cast that keeps the whole elements and ignores the leftover bytes.
TryCastSliceTruncating(raw) ==
    Ok([i \in 1..(Len(raw) \div PUBKEY_BYTES) |->
           SubSeq(raw, (i - 1) * PUBKEY_BYTES + 1, i * PUBKEY_BYTES)])

\* bytemuck::try_cast_slice::<u8, Pubkey>: Pubkey has alignment 1, so the cast fails
\* exactly when the byte length is not a multiple of the element size.
TryCastSlice(raw) ==
    IF Len(raw) % PUBKEY_BYTES # 0 THEN Err("SizeMismatch")
    ELSE Ok([i \in 1..(Len(raw) \div PUBKEY_BYTES) |->
                SubSeq(raw, (i - 1) * PUBKEY_BYTES + 1, i * PUBKEY_BYTES)])

\* Mutant: the address region is taken one element too far into the bytes.
deserializeSkipFirst(d) ==
    LET program_state == BincodeProgramState(d) IN
    IF ~program_state.ok THEN Err("InvalidAccountData")
    ELSE IF program_state.val.variant = "Uninitialized" THEN Err("UninitializedAccount")
    ELSE IF Len(d) < LOOKUP_TABLE_META_SIZE THEN Err("InvalidAccountData")
    ELSE LET raw_addresses_data ==
                 SubSeq(d, LOOKUP_TABLE_META_SIZE + PUBKEY_BYTES + 1, Len(d))
             addresses == TryCastSlice(raw_addresses_data)
         IN IF ~addresses.ok THEN Err("InvalidAccountData")
            ELSE Ok([meta |-> program_state.val, addresses |-> addresses.val])

deserialize(d) ==
    LET program_state == BincodeProgramState(d) IN
    IF ~program_state.ok THEN Err("InvalidAccountData")
    ELSE IF program_state.val.variant = "Uninitialized" THEN Err("UninitializedAccount")
    ELSE IF Len(d) < LOOKUP_TABLE_META_SIZE THEN Err("InvalidAccountData")
    ELSE LET raw_addresses_data == SubSeq(d, LOOKUP_TABLE_META_SIZE + 1, Len(d))
             addresses == TryCastSlice(raw_addresses_data)
         IN IF ~addresses.ok THEN Err("InvalidAccountData")
            ELSE Ok([meta |-> program_state.val, addresses |-> addresses.val])

\* ------------------------------------------------------ account byte layouts
\* Serialized ProgramState headers, padded to LOOKUP_TABLE_META_SIZE as on chain.
HdrActiveNoAuthority == <<1, 0, 0, 0>> \o Zeros(17) \o <<0>> \o Zeros(2) \o Zeros(32)
HdrActiveWithAuthority == <<1, 0, 0, 0>> \o Zeros(17) \o <<1>> \o Pk(1) \o Zeros(2)
HdrUninitialized == Zeros(56)
HdrUnknownTag == <<2, 0, 0, 0>> \o Zeros(52)
HdrBadOption == <<1, 0, 0, 0>> \o Zeros(17) \o <<2>> \o Zeros(34)

ActiveHeaders == {HdrActiveNoAuthority, HdrActiveWithAuthority}
Headers == ActiveHeaders \cup {HdrUninitialized, HdrUnknownTag, HdrBadOption}

Slop(n) == [i \in 1..n |-> 7]

ShortLens == {0, 3, 4, 21, 23, 24, 55}

AccountDatas ==
    {h \o Flatten(as) \o Slop(s) : h \in Headers, as \in SeqsUpTo(Keys, MaxAddrs), s \in 0..MaxSlop}
    \cup {Take(h, n) : h \in Headers, n \in ShortLens}

\* ------------------------------------------------ load_address_lookup_table
\* Option<T>: <<>> is None, <<v>> is Some(v).
None == <<>>
Some(v) == <<v>>

\* Account bytes a node may hold for a table address.
TableAccountA == HdrActiveNoAuthority \o Pk(2)
TableAccountB == HdrActiveWithAuthority \o Pk(2) \o Pk(1)
UninitializedAccount == HdrUninitialized
RaggedAccount == HdrActiveNoAuthority \o Pk(2) \o Slop(1)

SlotOptions ==
    {None} \cup {Some([data |-> d]) :
                    d \in {TableAccountA, TableAccountB, UninitializedAccount, RaggedAccount}}

\* rpc.get_multiple_accounts(tables): a transport or node error, or one
\* Option<Account> per requested address, in request order.
RpcGetMultipleAccounts(tbls, slotOptions) ==
    {Err("ClientError")} \cup {Ok(r) : r \in [1..Len(tbls) -> slotOptions]}

\* Mutant: each decoded table keyed by its position in the result, not in the request.
RECURSIVE DecodeSlotsByResultIndex(_, _, _, _)
DecodeSlotsByResultIndex(accounts, tbls, idx, acc) ==
    IF idx > Len(accounts) THEN acc
    ELSE LET acct == accounts[idx] IN
         IF acct = None THEN DecodeSlotsByResultIndex(accounts, tbls, idx + 1, acc)
         ELSE LET lut == deserialize(acct[1].data) IN
              IF ~lut.ok THEN DecodeSlotsByResultIndex(accounts, tbls, idx + 1, acc)
              ELSE DecodeSlotsByResultIndex(accounts, tbls, idx + 1,
                       Append(acc, [key |-> tbls[Len(acc) + 1],
                                    addresses |-> lut.val.addresses]))

\* accounts.into_iter().enumerate().filter_map(..).map(..).collect(), from slot idx on.
RECURSIVE DecodeSlots(_, _, _, _)
DecodeSlots(accounts, tbls, idx, acc) ==
    IF idx > Len(accounts) THEN acc
    ELSE LET acct == accounts[idx] IN
         IF acct = None THEN DecodeSlots(accounts, tbls, idx + 1, acc)
         ELSE LET lut == deserialize(acct[1].data) IN
              IF ~lut.ok THEN DecodeSlots(accounts, tbls, idx + 1, acc)
              ELSE DecodeSlots(accounts, tbls, idx + 1,
                       Append(acc, [key |-> tbls[idx], addresses |-> lut.val.addresses]))

\* Mutant: an absent or undecodable account fails the whole load.
load_address_lookup_tableStrict(tbls, response) ==
    IF ~response.ok THEN Err(response.err)
    ELSE IF Len(DecodeSlots(response.val, tbls, 1, <<>>)) # Len(tbls)
         THEN Err("InvalidAccountData")
         ELSE Ok(DecodeSlots(response.val, tbls, 1, <<>>))

\* load_address_lookup_table(rpc, tables), given the rpc's answer
load_address_lookup_table(tbls, response) ==
    IF ~response.ok THEN Err(response.err)
    ELSE Ok(DecodeSlots(response.val, tbls, 1, <<>>))

\* ------------------------------------------- string-encoded inputs (serde)
\* A string-encoded address is written as a code: n in 1..NumKeys is the base58
\* text of Pk(n), for every n >= 1; 0 is text that is not a base58 address of 32 bytes.
KeyStrings == 0..NumKeys

\* Pubkey::from_str / str::parse::<Pubkey>
PubkeyFromStr(s) == IF s >= 1 THEN Ok(Pk(s)) ELSE Err("ParsePubkeyError")

DataStrings == {"AQID", "", "!bad"}

\* base64 STANDARD engine decode
B64Decode(s) ==
    CASE s = "AQID" -> Ok(<<1, 2, 3>>)
      [] s = "" -> Ok(<<>>)
      [] OTHER -> Err("DecodeError")

Accounts == [pubkey : KeyStrings, is_signer : BOOLEAN, is_writable : BOOLEAN]

Descriptors ==
    [program_id : KeyStrings, accounts : SeqsUpTo(Accounts, MaxAccounts), data : DataStrings]

\* ------------------------------------------------------------ to_instruction
\* AccountMeta::new(pubkey, is_signer)
AccountMetaNew(pubkey, is_signer) ==
    [pubkey |-> pubkey, is_signer |-> is_signer, is_writable |-> TRUE]

\* AccountMeta::new_readonly(pubkey, is_signer)
AccountMetaNewReadonly(pubkey, is_signer) ==
    [pubkey |-> pubkey, is_signer |-> is_signer, is_writable |-> FALSE]

\* Mutant: the writable branch and the read-only branch exchanged.
AccountToMetaFlipped(acct) ==
    LET pk == PubkeyFromStr(acct.pubkey) IN
    IF ~pk.ok THEN <<>>
    ELSE IF acct.is_writable
         THEN <<AccountMetaNewReadonly(pk.val, acct.is_signer)>>
         ELSE <<AccountMetaNew(pk.val, acct.is_signer)>>

\* The closure handed to filter_map: Some(meta), or None when the key does not parse.
AccountToMeta(acct) ==
    LET pk == PubkeyFromStr(acct.pubkey) IN
    IF ~pk.ok THEN <<>>
    ELSE IF acct.is_writable
         THEN <<AccountMetaNew(pk.val, acct.is_signer)>>
         ELSE <<AccountMetaNewReadonly(pk.val, acct.is_signer)>>

\* accounts.iter().filter_map(..).collect()
RECURSIVE FilterMapAccounts(_)
FilterMapAccounts(accts) ==
    IF accts = <<>> THEN <<>>
    ELSE AccountToMeta(Head(accts)) \o FilterMapAccounts(Tail(accts))

SetupToInstruction(ix) ==
    LET ix_data == B64Decode(ix.data)
        expected_size == Len(ix.accounts)
        accounts == FilterMapAccounts(ix.accounts)
        program_id == PubkeyFromStr(ix.program_id)
    IN IF ~ix_data.ok THEN Err(ix_data.err)
       ELSE IF Len(accounts) # expected_size THEN Err("account parse failed")
       ELSE IF ~program_id.ok THEN Err(program_id.err)
       ELSE Ok([program_id |-> program_id.val, accounts |-> accounts, data |-> ix_data.val])

\* Mutant: the resolved-count check left out.
SwapToInstructionUnchecked(ix) ==
    LET ix_data == B64Decode(ix.data)
        accounts == FilterMapAccounts(ix.accounts)
        program_id == PubkeyFromStr(ix.program_id)
    IN IF ~ix_data.ok THEN Err(ix_data.err)
       ELSE IF ~program_id.ok THEN Err(program_id.err)
       ELSE Ok([program_id |-> program_id.val, accounts |-> accounts, data |-> ix_data.val])

SwapToInstruction(ix) ==
    LET ix_data == B64Decode(ix.data)
        expected_size == Len(ix.accounts)
        accounts == FilterMapAccounts(ix.accounts)
        program_id == PubkeyFromStr(ix.program_id)
    IN IF ~ix_data.ok THEN Err(ix_data.err)
       ELSE IF Len(accounts) # expected_size THEN Err("account parse failed")
       ELSE IF ~program_id.ok THEN Err(program_id.err)
       ELSE Ok([program_id |-> program_id.val, accounts |-> accounts, data |-> ix_data.val])

\* ---------------------------------------------------- new_v0_transaction
\* ComputeBudgetInstruction::set_compute_unit_price / set_compute_unit_limit:
\* no accounts, the variant index and the value as data.
ComputeBudgetProgram == Pk(255)

SetComputeUnitPrice(micro_lamports) ==
    [program_id |-> ComputeBudgetProgram, accounts |-> <<>>, data |-> <<3, micro_lamports>>]

SetComputeUnitLimit(units) ==
    [program_id |-> ComputeBudgetProgram, accounts |-> <<>>, data |-> <<2, units>>]

\* Mutant: the two compute-budget pushes in the opposite order.
ComputeBudgetIxsLimitFirst(prio, cu) ==
    (IF cu # None THEN <<SetComputeUnitLimit(cu[1])>> ELSE <<>>)
    \o (IF prio # None THEN <<SetComputeUnitPrice(prio[1])>> ELSE <<>>)

\* The two `if let Some(..)` pushes.
ComputeBudgetIxs(prio, cu) ==
    (IF prio # None THEN <<SetComputeUnitPrice(prio[1])>> ELSE <<>>)
    \o (IF cu # None THEN <<SetComputeUnitLimit(cu[1])>> ELSE <<>>)

\* Mutant: a setup descriptor that fails to build ends the collection.
RECURSIVE CollectSetupIxsUntilFailure(_)
CollectSetupIxsUntilFailure(setups) ==
    IF setups = <<>> THEN <<>>
    ELSE LET ix == SetupToInstruction(Head(setups)) IN
         IF ix.ok THEN <<ix.val>> \o CollectSetupIxsUntilFailure(Tail(setups)) ELSE <<>>

\* setup_instructions.iter().filter_map(|ix| ix.to_instruction().ok()).collect()
RECURSIVE CollectSetupIxs(_)
CollectSetupIxs(setups) ==
    IF setups = <<>> THEN <<>>
    ELSE LET ix == SetupToInstruction(Head(setups)) IN
         (IF ix.ok THEN <<ix.val>> ELSE <<>>) \o CollectSetupIxs(Tail(setups))

\* The instruction list of new_v0_transaction, or the swap instruction's error.
BuildInstructionList(resp, prio, cu) ==
    LET swap == SwapToInstruction(resp.swap_instruction) IN
    IF ~swap.ok THEN Err(swap.err)
    ELSE Ok(ComputeBudgetIxs(prio, cu)
            \o CollectSetupIxs(resp.setup_instructions)
            \o <<swap.val>>)

\* SwapResponse::address_lookup_tables
RECURSIVE address_lookup_tables(_)
address_lookup_tables(addrs) ==
    IF addrs = <<>> THEN <<>>
    ELSE LET pk == PubkeyFromStr(Head(addrs)) IN
         (IF pk.ok THEN <<pk.val>> ELSE <<>>) \o address_lookup_tables(Tail(addrs))

\* The keys that must sign a message: the payer and every account flagged is_signer.
RequiredSigners(payer, ixs) ==
    {payer} \cup UNION {{ixs[i].accounts[j].pubkey :
                            j \in {k \in 1..Len(ixs[i].accounts) : ixs[i].accounts[k].is_signer}} :
                        i \in 1..Len(ixs)}

\* v0::Message::try_compile(&payer, &instructions, &luts, blockhash). `fits` stands
\* for the message-format limits (the account and lookup index ranges) holding.
TryCompile(payer, ixs, luts, recent_blockhash, fits) ==
    IF ~fits THEN Err("CompileError")
    ELSE Ok([payer |-> payer, instructions |-> ixs, luts |-> luts,
             recent_blockhash |-> recent_blockhash,
             signers |-> RequiredSigners(payer, ixs)])

\* ------------------------------------------------------------ Swapper::new_swap
\* The public key of the keypair the Swapper holds.
SwapperPubkey == Pk(1)

\* Keypair::from_bytes(&self.keypair_bytes)
KeypairFromBytes(bytes) ==
    IF bytes = "valid" THEN Ok([pubkey |-> SwapperPubkey]) ELSE Err("SignatureError")

PrioFeeOfNewSwap == 1000000
CuLimitOfNewSwap == 1000000

\* VersionedTransaction::try_new(VersionedMessage::V0(msg), &[&kp]): the signers given
\* must be exactly the keys the message requires to sign.
TryNew(msg, kp) ==
    IF msg.signers = {kp.pubkey}
    THEN Ok([message |-> msg, signatures |-> <<[signer |-> kp.pubkey]>>])
    ELSE Err("SignerError")

\* Mutant: a failed send reported as success.
SendResultSwallowed(outcome) ==
    IF outcome.ok THEN Ok(outcome.val) ELSE Ok(<<>>)

\* The match on send_transaction_with_config's result.
SendResult(outcome) ==
    IF outcome.ok THEN Ok(outcome.val) ELSE Err("failed execute swap")

\* Mutant: the blockhash requested right after the instructions are built.
ThenSkippingLoad(step, e) ==
    CASE step = "start" -> "build"
      [] step = "build" -> "blockhash"
      [] step = "load" -> "blockhash"
      [] step = "blockhash" -> "compile"
      [] step = "compile" -> IF e = "new_swap" THEN "sign" ELSE "done"
      [] step = "sign" -> "send"
      [] OTHER -> "done"

\* Statement order of new_swap and of the new_v0_transaction it awaits: the step
\* that follows `step` when `step` succeeded.
Then(step, e) ==
    CASE step = "start" -> "build"
      [] step = "build" -> "load"
      [] step = "load" -> "blockhash"
      [] step = "blockhash" -> "compile"
      [] step = "compile" -> IF e = "new_swap" THEN "sign" ELSE "done"
      [] step = "sign" -> "send"
      [] OTHER -> "done"

\* ------------------------------------------------------------ plans in play
SetupA == [program_id |-> 3, data |-> "",
           accounts |-> <<[pubkey |-> 1, is_signer |-> TRUE, is_writable |-> TRUE],
                          [pubkey |-> 2, is_signer |-> FALSE, is_writable |-> FALSE]>>]
SetupB == [program_id |-> 3, data |-> "AQID",
           accounts |-> <<[pubkey |-> 2, is_signer |-> FALSE, is_writable |-> TRUE]>>]
BadKeyIx == [program_id |-> 3, data |-> "AQID",
             accounts |-> <<[pubkey |-> 2, is_signer |-> FALSE, is_writable |-> TRUE],
                            [pubkey |-> 0, is_signer |-> FALSE, is_writable |-> FALSE]>>]
SwapGood == [program_id |-> 3, data |-> "AQID",
             accounts |-> <<[pubkey |-> 1, is_signer |-> TRUE, is_writable |-> TRUE],
                            [pubkey |-> 2, is_signer |-> FALSE, is_writable |-> TRUE]>>]
ForeignSignerIx == [program_id |-> 3, data |-> "AQID",
                    accounts |-> <<[pubkey |-> 2, is_signer |-> TRUE, is_writable |-> TRUE]>>]

PlanTableStrings == {0, 4, 5}

Plans ==
    [setup_instructions : SeqsUpTo({SetupA, SetupB, BadKeyIx}, MaxSetup),
     swap_instruction : {SwapGood, BadKeyIx, ForeignSignerIx},
     address_lookup_table_addresses : SeqsUpTo(PlanTableStrings, MaxPlanTables)]

PlanSlotOptions ==
    {None, Some([data |-> TableAccountA]), Some([data |-> RaggedAccount])}

\* ------------------------------------------------------------ decoder spec
IdleDecode == data = <<>> /\ decoded = NotRun
IdleIx == desc = <<>> /\ built = NotRun /\ builtBy = ""
IdleLoad == tables = <<>> /\ fetched = NotRun /\ loaded = NotRun
IdleRun ==
    /\ pc = "idle" /\ entry = "" /\ keypair_bytes = "" /\ swap_response = <<>>
    /\ prio_fee = None /\ cu_limit = None /\ rpc_blockhash = NotRun
    /\ instructions = NotRun /\ blockhash = NotRun /\ v0_msg = NotRun
    /\ v_tx = NotRun /\ sends = 0 /\ sent = NotRun /\ result = NotRun

InitDecode ==
    /\ data \in AccountDatas
    /\ decoded = NotRun
    /\ IdleIx
    /\ IdleLoad
    /\ IdleRun

Deserialize ==
    /\ decoded = NotRun
    /\ decoded' = deserialize(data)
    /\ UNCHANGED <<data, ixVars, loadVars, runVars>>

NextDecode == Deserialize

SpecDecode == InitDecode /\ [][NextDecode]_vars

\* ------------------------------------------------- instruction builder spec
InitIx ==
    /\ desc \in Descriptors
    /\ built = NotRun
    /\ builtBy = ""
    /\ IdleDecode
    /\ IdleLoad
    /\ IdleRun

BuildSetup ==
    /\ builtBy = ""
    /\ built' = SetupToInstruction(desc)
    /\ builtBy' = "setup"
    /\ UNCHANGED <<desc, decodeVars, loadVars, runVars>>

BuildSwap ==
    /\ builtBy = ""
    /\ built' = SwapToInstruction(desc)
    /\ builtBy' = "swap"
    /\ UNCHANGED <<desc, decodeVars, loadVars, runVars>>

NextIx == BuildSetup \/ BuildSwap

SpecIx == InitIx /\ [][NextIx]_vars

\* ------------------------------------------------------------- loader spec
InitLoad ==
    /\ tables \in SeqsUpTo(Keys, MaxTables)
    /\ fetched = NotRun
    /\ loaded = NotRun
    /\ IdleDecode
    /\ IdleIx
    /\ IdleRun

Load ==
    /\ fetched = NotRun
    /\ \E response \in RpcGetMultipleAccounts(tables, SlotOptions) :
          /\ fetched' = response
          /\ loaded' = load_address_lookup_table(tables, response)
    /\ UNCHANGED <<tables, decodeVars, ixVars, runVars>>

NextLoad == Load

SpecLoad == InitLoad /\ [][NextLoad]_vars

\* ----------------------------------------------------------- pipeline spec
Init ==
    /\ entry \in {"new_swap", "new_v0_transaction"}
    /\ swap_response \in Plans
    /\ rpc_blockhash \in {Ok(<<9>>), Err("ClientError")}
    /\ IF entry = "new_swap"
       THEN /\ keypair_bytes \in {"valid", "malformed"}
            /\ prio_fee = None /\ cu_limit = None
            /\ pc = "start"
       ELSE /\ keypair_bytes = "valid"
            /\ prio_fee \in {None, Some(5)}
            /\ cu_limit \in {None, Some(7)}
            /\ pc = "build"
    /\ instructions = NotRun /\ blockhash = NotRun /\ v0_msg = NotRun
    /\ v_tx = NotRun /\ sends = 0 /\ sent = NotRun /\ result = NotRun
    /\ IdleDecode /\ IdleIx /\ IdleLoad

\* new_v0_transaction returns Err(e): `?` in new_swap hands it on to the caller.
FailV0(e) ==
    /\ v0_msg' = Err(e)
    /\ result' = IF entry = "new_swap" THEN Err(e) ELSE result
    /\ pc' = "done"

\* new_swap up to the call of new_v0_transaction
Start ==
    /\ pc = "start"
    /\ LET kp == KeypairFromBytes(keypair_bytes) IN
       IF kp.ok
       THEN /\ prio_fee' = Some(PrioFeeOfNewSwap)
            /\ cu_limit' = Some(CuLimitOfNewSwap)
            /\ pc' = Then("start", entry)
            /\ UNCHANGED result
       ELSE /\ result' = Err(kp.err)
            /\ pc' = "done"
            /\ UNCHANGED <<prio_fee, cu_limit>>
    /\ UNCHANGED <<entry, keypair_bytes, swap_response, rpc_blockhash, instructions,
                   blockhash, v0_msg, v_tx, sends, sent, decodeVars, ixVars, loadVars>>

\* new_v0_transaction: the instruction list
BuildInstructions ==
    /\ pc = "build"
    /\ LET ixs == BuildInstructionList(swap_response, prio_fee, cu_limit) IN
       /\ instructions' = ixs
       /\ IF ixs.ok
          THEN pc' = Then("build", entry) /\ UNCHANGED <<v0_msg, result>>
          ELSE FailV0(ixs.err)
    /\ UNCHANGED <<entry, keypair_bytes, swap_response, prio_fee, cu_limit, rpc_blockhash,
                   blockhash, v_tx, sends, sent, decodeVars, ixVars, loadVars>>

\* new_v0_transaction: the lookup tables
LoadTables ==
    /\ pc = "load"
    /\ LET luts == address_lookup_tables(swap_response.address_lookup_table_addresses) IN
       \E response \in RpcGetMultipleAccounts(luts, PlanSlotOptions) :
          LET res == load_address_lookup_table(luts, response) IN
          /\ tables' = luts
          /\ fetched' = response
          /\ loaded' = res
          /\ IF res.ok
             THEN pc' = Then("load", entry) /\ UNCHANGED <<v0_msg, result>>
             ELSE FailV0(res.err)
    /\ UNCHANGED <<entry, keypair_bytes, swap_response, prio_fee, cu_limit, rpc_blockhash,
                   instructions, blockhash, v_tx, sends, sent, decodeVars, ixVars>>

\* new_v0_transaction: rpc.get_latest_blockhash().await?
GetLatestBlockhash ==
    /\ pc = "blockhash"
    /\ blockhash' = rpc_blockhash
    /\ IF rpc_blockhash.ok
       THEN pc' = Then("blockhash", entry) /\ UNCHANGED <<v0_msg, result>>
       ELSE FailV0(rpc_blockhash.err)
    /\ UNCHANGED <<entry, keypair_bytes, swap_response, prio_fee, cu_limit, rpc_blockhash,
                   instructions, v_tx, sends, sent, decodeVars, ixVars, loadVars>>

\* new_v0_transaction: try_compile and the return
Compile ==
    /\ pc = "compile"
    /\ \E fits \in BOOLEAN :
          LET msg == TryCompile(KeypairFromBytes(keypair_bytes).val.pubkey,
                                instructions.val, loaded.val, blockhash.val, fits) IN
          IF msg.ok
          THEN v0_msg' = msg /\ pc' = Then("compile", entry) /\ UNCHANGED result
          ELSE FailV0(msg.err)
    /\ UNCHANGED <<entry, keypair_bytes, swap_response, prio_fee, cu_limit, rpc_blockhash,
                   instructions, blockhash, v_tx, sends, sent, decodeVars, ixVars, loadVars>>

\* new_swap: VersionedTransaction::try_new(..)?
Sign ==
    /\ pc = "sign"
    /\ LET tx == TryNew(v0_msg.val, KeypairFromBytes(keypair_bytes).val) IN
       /\ v_tx' = tx
       /\ IF tx.ok
          THEN pc' = Then("sign", entry) /\ UNCHANGED result
          ELSE result' = Err(tx.err) /\ pc' = "done"
    /\ UNCHANGED <<entry, keypair_bytes, swap_response, prio_fee, cu_limit, rpc_blockhash,
                   instructions, blockhash, v0_msg, sends, sent, decodeVars, ixVars, loadVars>>

\* new_swap: send_transaction_with_config(..).await and the match on its result
Send ==
    /\ pc = "send"
    /\ \E outcome \in {Ok(v_tx.val.signatures[1]), Err("ClientError")} :
          /\ sent' = outcome
          /\ result' = SendResult(outcome)
    /\ sends' = sends + 1
    /\ pc' = Then("send", entry)
    /\ UNCHANGED <<entry, keypair_bytes, swap_response, prio_fee, cu_limit, rpc_blockhash,
                   instructions, blockhash, v0_msg, v_tx, decodeVars, ixVars, loadVars>>

Next ==
    \/ Start
    \/ BuildInstructions
    \/ LoadTables
    \/ GetLatestBlockhash
    \/ Compile
    \/ Sign
    \/ Send

Spec == Init /\ [][Next]_vars

\* ================================================================== claims

\* ---- LookupTable::deserialize
TrailingRegionLen == Len(data) - LOOKUP_TABLE_META_SIZE

RaggedTrailingRegion ==
    /\ Len(data) >= LOOKUP_TABLE_META_SIZE
    /\ TrailingRegionLen % PUBKEY_BYTES # 0

UninitializedHeader == Len(data) >= 4 /\ Take(data, 4) = <<0, 0, 0, 0>>

\* C6 as stated: a trailing address region whose length is not a multiple of 32
\* makes deserialize fail with InvalidAccountData, whatever the header holds.
C6_RaggedAlwaysInvalidAccountData ==
    (decoded # NotRun /\ RaggedTrailingRegion)
        => (~decoded.ok /\ decoded.err = "InvalidAccountData")

\* C6 amended: with such a trailing region deserialize always fails; the error is
\* UninitializedAccount when the header is the uninitialized variant and
\* InvalidAccountData for every other header.
C6_RaggedFails ==
    (decoded # NotRun /\ RaggedTrailingRegion)
        => /\ ~decoded.ok
           /\ decoded.err = IF UninitializedHeader THEN "UninitializedAccount"
                            ELSE "InvalidAccountData"

C6_Witness ==
    /\ decoded # NotRun
    /\ RaggedTrailingRegion
    /\ TrailingRegionLen > PUBKEY_BYTES
    /\ Take(data, LOOKUP_TABLE_META_SIZE) \in ActiveHeaders
    /\ decoded = Err("InvalidAccountData")

\* C7: an active-table header followed by N packed 32-byte addresses (N >= 0)
\* decodes successfully to exactly those N addresses, in the same order.
C7_RoundTrip ==
    \A h \in ActiveHeaders, as \in SeqsUpTo(Keys, MaxAddrs) :
        (decoded # NotRun /\ data = h \o Flatten(as))
            => (decoded.ok /\ decoded.val.addresses = as)

C7_Witness ==
    /\ decoded.ok
    /\ Len(decoded.val.addresses) = 2
    /\ decoded.val.addresses[1] # decoded.val.addresses[2]
    /\ data = HdrActiveWithAuthority \o Flatten(decoded.val.addresses)

\* ---- SetupInstruction::to_instruction, SwapInstruction::to_instruction
SomeKeyUnparseable ==
    \E i \in 1..Len(desc.accounts) : ~PubkeyFromStr(desc.accounts[i].pubkey).ok

\* C1: to_instruction returns an instruction with exactly the K declared accounts
\* or an error; one unparseable account key fails the build.
C1_AllAccountsOrError ==
    builtBy # ""
        => /\ built.ok => Len(built.val.accounts) = Len(desc.accounts)
           /\ SomeKeyUnparseable => ~built.ok

C1_Witness ==
    /\ builtBy = "swap"
    /\ Len(desc.accounts) = 2
    /\ PubkeyFromStr(desc.accounts[1].pubkey).ok
    /\ ~PubkeyFromStr(desc.accounts[2].pubkey).ok
    /\ B64Decode(desc.data).ok
    /\ PubkeyFromStr(desc.program_id).ok
    /\ built = Err("account parse failed")

\* C10: on success the i-th account of the instruction is the parsed address of the
\* i-th declared account, with its is_signer and is_writable flags unchanged.
C10_AccountsPositional ==
    (builtBy # "" /\ built.ok)
        => /\ Len(built.val.accounts) = Len(desc.accounts)
           /\ \A i \in 1..Len(desc.accounts) :
                 /\ built.val.accounts[i].pubkey = Pk(desc.accounts[i].pubkey)
                 /\ built.val.accounts[i].is_signer = desc.accounts[i].is_signer
                 /\ built.val.accounts[i].is_writable = desc.accounts[i].is_writable

C10_Witness ==
    /\ builtBy = "setup"
    /\ built.ok
    /\ Len(desc.accounts) = 2
    /\ desc.accounts[1].pubkey # desc.accounts[2].pubkey
    /\ desc.accounts[1].is_writable /\ ~desc.accounts[2].is_writable
    /\ desc.accounts[1].is_signer /\ ~desc.accounts[2].is_signer

\* ---- load_address_lookup_table
\* The request positions whose account is present and decodes.
Decodable(response) ==
    {i \in 1..Len(response) :
        response[i] # None /\ deserialize(response[i][1].data).ok}

\* The j-th smallest member of a set of positions.
NthOf(S, j) == CHOOSE i \in S : Cardinality({k \in S : k <= i}) = j

\* C4: when the batched fetch returns, the loader succeeds with exactly one table
\* per request position whose account is present and decodes, each keyed by the
\* requested address of that position and carrying that account's addresses.
C4_OnePerDecodable ==
    (fetched # NotRun /\ fetched.ok)
        => /\ loaded.ok
           /\ Len(loaded.val) = Cardinality(Decodable(fetched.val))
           /\ \A j \in 1..Len(loaded.val) :
                 LET i == NthOf(Decodable(fetched.val), j) IN
                 /\ loaded.val[j].key = tables[i]
                 /\ loaded.val[j].addresses
                       = deserialize(fetched.val[i][1].data).val.addresses

C4_Witness ==
    /\ fetched.ok
    /\ Len(tables) = 2
    /\ tables[1] # tables[2]
    /\ fetched.val[1] = Some([data |-> RaggedAccount])
    /\ fetched.val[2] = Some([data |-> TableAccountB])
    /\ loaded = Ok(<<[key |-> tables[2], addresses |-> <<Pk(2), Pk(1)>>]>>)

\* ---- SwapResponse::new_v0_transaction
SetupDescs == swap_response.setup_instructions

\* The positions of the setup descriptors that build.
BuiltSetups == {i \in 1..Len(SetupDescs) : SetupToInstruction(SetupDescs[i]).ok}

BothRequested == prio_fee # None /\ cu_limit # None

\* C2 as stated: with a priority fee and a compute-unit limit, a successful
\* new_v0_transaction compiles 2 + setup_count + 1 instructions, setup_count being
\* the number of setup descriptors of the plan.
C2_LengthCountsEveryDescriptor ==
    (v0_msg.ok /\ BothRequested)
        => Len(v0_msg.val.instructions) = 2 + Len(SetupDescs) + 1

\* C2 amended: the compiled sequence has 2 + built_count + 1 instructions, built_count
\* being the number of setup descriptors that build; it is 2 + setup_count + 1 exactly
\* when every setup descriptor builds.
C2_LengthCountsBuiltSetups ==
    (v0_msg.ok /\ BothRequested)
        => /\ Len(v0_msg.val.instructions) = 2 + Cardinality(BuiltSetups) + 1
           /\ (Len(v0_msg.val.instructions) = 2 + Len(SetupDescs) + 1)
                 <=> (BuiltSetups = 1..Len(SetupDescs))

C2_Witness ==
    /\ v0_msg.ok
    /\ BothRequested
    /\ SetupDescs = <<BadKeyIx, SetupA>>
    /\ Len(v0_msg.val.instructions) = 4

\* C3: the compiled sequence is the priority-fee instruction (if requested), the
\* compute-unit-limit instruction (if requested), the setup instructions that
\* built, in descriptor order, and the swap instruction last; nothing else.
C3_FixedOrder ==
    v0_msg.ok
        => LET ixs == v0_msg.val.instructions
               p == IF prio_fee # None THEN 1 ELSE 0
               c == IF cu_limit # None THEN 1 ELSE 0
               m == Cardinality(BuiltSetups)
           IN /\ Len(ixs) = p + c + m + 1
              /\ p = 1 => ixs[1] = SetComputeUnitPrice(prio_fee[1])
              /\ c = 1 => ixs[p + 1] = SetComputeUnitLimit(cu_limit[1])
              /\ \A j \in 1..m :
                    ixs[p + c + j]
                       = SetupToInstruction(SetupDescs[NthOf(BuiltSetups, j)]).val
              /\ ixs[Len(ixs)] = SwapToInstruction(swap_response.swap_instruction).val

C3_Witness ==
    /\ v0_msg.ok
    /\ entry = "new_v0_transaction"
    /\ BothRequested
    /\ SetupDescs = <<SetupB, SetupA>>
    /\ Len(v0_msg.val.instructions) = 5

\* ---- lookup tables inside new_v0_transaction
SwapBuilds == SwapToInstruction(swap_response.swap_instruction).ok

\* The node was asked for at least one table and not every one of them resolved.
SomeTableUnresolved ==
    /\ fetched # NotRun
    /\ Len(tables) > 0
    /\ loaded.ok => Len(loaded.val) < Len(tables)

C8_TablesBeforeInstructions ==
    /\ instructions # NotRun => loaded.ok
    /\ v0_msg.ok => instructions.ok
    /\ v_tx # NotRun => v0_msg.ok
    /\ sends > 0 => v_tx.ok

\* C8 amended: instructions built, then tables resolved, then the blockhash fetched
\* and the message compiled, then signed, then submitted; a step runs only after
\* the one before it has succeeded.
C8_PhaseOrder ==
    /\ loaded # NotRun => instructions.ok
    /\ blockhash # NotRun => loaded.ok
    /\ v0_msg.ok => (instructions.ok /\ loaded.ok /\ blockhash.ok)
    /\ v_tx # NotRun => v0_msg.ok
    /\ sends > 0 => v_tx.ok

C8_Witness ==
    /\ pc = "done"
    /\ entry = "new_swap"
    /\ sends = 1
    /\ instructions.ok /\ loaded.ok /\ blockhash.ok /\ v0_msg.ok /\ v_tx.ok

\* C9: the transaction is sent at most once, and only after key reconstruction,
\* compilation and signing succeeded; the run ends with the signature if and only if
\* that send succeeded, and with an error in every other case.
C9_SingleSendSingleOutcome ==
    /\ sends <= 1
    /\ sends = 1 => (KeypairFromBytes(keypair_bytes).ok /\ v0_msg.ok /\ v_tx.ok)
    /\ pc # "done" => (result = NotRun /\ sends = 0)
    /\ (pc = "done" /\ entry = "new_swap")
          => /\ result # NotRun
             /\ result.ok <=> (sends = 1 /\ sent.ok)
             /\ result.ok => result.val = sent.val

C9_Witness ==
    /\ pc = "done"
    /\ entry = "new_swap"
    /\ sends = 1
    /\ ~sent.ok
    /\ result = Err("failed execute swap")

====
